---- MODULE Spec2Model ----
(***************************************************************************)
(* Invenio-Archivematica REST API views (invenio_archivematica/views/      *)
(* rest.py): the Archive resource (GET = status query with optional live   *)
(* reconciliation against Archivematica, PATCH = write path) and the       *)
(* ArchiveDownload resource, over one Archive record.                      *)
(*                                                                         *)
(* A request is served by one client slot p.  PATCH and download run in    *)
(* one step; a live status query is cut at its outbound round trips to     *)
(* Archivematica (requests.get), the only points where another request can *)
(* interleave.  Spec runs the requests one at a time, SpecConc lets them   *)
(* overlap.                                                                *)
(***************************************************************************)
EXTENDS Naturals, Sequences, FiniteSets

VARIABLES
    db,       \* the persisted Archive record of the known accession
    pc,       \* pc[p]: position of the request served by slot p
    call,     \* call[p]: the request (operation, arguments, record at entry)
    archive,  \* archive[p]: the Archive object the request's session holds
    params,   \* params[p]: whether the local `params` of Archive.get is bound
    log,      \* log[p]: outbound polls and Dispatcher invocations of the call
    resp,     \* resp[p]: the response returned
    last,     \* the last completed request, kept while requests are serial
    serial,   \* whether the server takes one request at a time
    served    \* the number of requests admitted so far, when they overlap

vars == <<db, pc, call, archive, params, log, resp, last, serial, served>>

----------------------------------------------------------------------------
(* Bounds *)

NumClients == 2
NumIds == 2
MaxRequests == 3

Clients == 1..NumClients

IdPool == <<"T1", "P1", "P2", "P3">>
Ids == {IdPool[i] : i \in 1..NumIds}

----------------------------------------------------------------------------
(* Status Model *)

ArchiveStatus ==
    {"NEW", "WAITING", "PROCESSING_TRANSFER", "PROCESSING_AIP", "REGISTERED",
     "FAILED"}

InvalidStatus == "InvalidStatus"

\* status_converter(status, aip_processing): the Archivematica vocabulary
\* ("COMPLETE", "PROCESSING", "FAILED") and the local names map to a status;
\* "PROCESSING" means a different stage on each endpoint.  Any other string,
\* the empty string included, is rejected (the call raises).
status_converter(status, aip_processing) ==
    CASE status = "COMPLETE" -> "REGISTERED"
      [] status = "PROCESSING" ->
            IF aip_processing THEN "PROCESSING_AIP" ELSE "PROCESSING_TRANSFER"
      [] status \in ArchiveStatus -> status
      [] OTHER -> InvalidStatus

\* change_status_func[status](sip, accession_id, archivematica_id): persists
\* the status (and the identifier it is handed) on the matching record.
change_status_func(rec, status, archivematica_id) ==
    [rec EXCEPT !.status = status, !.archivematica_id = archivematica_id]

----------------------------------------------------------------------------
(* The record, requests and responses *)

KnownAccession == "A1"
AccessionIds == {"A1", "A0"}

InitialRecord ==
    [sip_id |-> "S1", accession_id |-> KnownAccession, status |-> "NEW",
     archivematica_id |-> ""]

NoRecord ==
    [sip_id |-> "", accession_id |-> "", status |-> "", archivematica_id |-> ""]

\* Archive_.get_from_accession_id
get_from_accession_id(accession_id) ==
    IF accession_id = KnownAccession THEN db ELSE NoRecord

\* An optional JSON field is <<>> when omitted and <<v>> when supplied.
StatusStrings ==
    {"WAITING", "PROCESSING", "PROCESSING_AIP", "REGISTERED", "FAILED",
     "BOGUS", ""}
StatusArgs == {<<>>} \cup {<<s>> : s \in StatusStrings}
IdArgs == {<<>>} \cup {<<i>> : i \in Ids}

\* use_kwargs: an omitted field takes the handler's default ''.
ArgOrDefault(arg) == IF arg = <<>> THEN "" ELSE arg[1]

Request(op, accession_id, status, archivematica_id, real_status) ==
    [op |-> op, accession_id |-> accession_id, status |-> status,
     archivematica_id |-> archivematica_id, real_status |-> real_status]

NoRequest == Request("none", "", <<>>, <<>>, FALSE)

\* A call is its request, the persisted record when it entered (entry) and
\* whether it repeats the PATCH completed just before it (prev_patch).
NoCall ==
    [op |-> "none", accession_id |-> "", status |-> <<>>,
     archivematica_id |-> <<>>, real_status |-> FALSE, entry |-> NoRecord,
     prev_patch |-> FALSE]

NewCall(rq) ==
    [op |-> rq.op, accession_id |-> rq.accession_id, status |-> rq.status,
     archivematica_id |-> rq.archivematica_id, real_status |-> rq.real_status,
     entry |-> db, prev_patch |-> (last = rq /\ rq.op = "patch")]

RequestOf(c) ==
    Request(c.op, c.accession_id, c.status, c.archivematica_id, c.real_status)

\* Responses: a status code and a body.
Body(kind, rec) == [kind |-> kind, rec |-> rec]
NoResp == [code |-> 0, body |-> Body("none", NoRecord)]

\* Archive._to_json
_to_json(ark) == [code |-> 200, body |-> Body("record", ark)]

\* jsonify({}), response.status_code
EmptyJson(code) == [code |-> code, body |-> Body("empty_json", NoRecord)]

\* make_response(text, code) / abort(code, text)
TextResponse(code) == [code |-> code, body |-> Body("text", NoRecord)]

\* an exception that leaves the view: the framework's server error
ServerError == [code |-> 500, body |-> Body("server_error", NoRecord)]

\* Entries of log[p]: an outbound request (kind "transfer", "ingest" or
\* "download", with the identifier in its URL), Archivematica's answer to it
\* (kind "transfer_answer", "ingest_answer" or "download_answer") and a
\* Dispatcher invocation
\* (kind "dispatch": the status it is invoked for, the identifier it is
\* handed, the status the request's Archive object held (seen) and the status
\* of the persisted record (cached) when it was invoked).
Event(kind, status, archivematica_id, seen, cached, answer, code) ==
    [kind |-> kind, status |-> status, archivematica_id |-> archivematica_id,
     seen |-> seen, cached |-> cached, answer |-> answer, code |-> code]
PollEvent(kind, uuid) == Event(kind, "", uuid, "", "", "", 0)
AnswerEvent(kind, response) ==
    Event(kind, response.status, response.sip_uuid, "", "", response.kind,
          response.code)
DispatchEvent(status, archivematica_id, seen, cached) ==
    Event("dispatch", status, archivematica_id, seen, cached, "", 0)

\* Archivematica's answers to a poll: an HTTP response or a transport error.
Upstream(kind, code, status, sip_uuid) ==
    [kind |-> kind, code |-> code, status |-> status, sip_uuid |-> sip_uuid]
UpstreamStrings == {"PROCESSING", "COMPLETE", "FAILED", "BOGUS"}
UpstreamErrorCodes == {404, 500}
\* The transfer-status answer names the package (sip_uuid) once the transfer is
\* complete.
TransferResponses ==
    {Upstream("http", 200, "COMPLETE", u) : u \in Ids \cup {""}}
    \cup {Upstream("http", 200, s, "") : s \in UpstreamStrings \ {"COMPLETE"}}
    \cup {Upstream("http", c, "", "") : c \in UpstreamErrorCodes}
    \cup {Upstream("transport", 0, "", "")}
IngestResponses ==
    {Upstream("http", 200, s, "") : s \in UpstreamStrings}
    \cup {Upstream("http", c, "", "") : c \in UpstreamErrorCodes}
    \cup {Upstream("transport", 0, "", "")}

DownloadResponses ==
    {Upstream("http", c, "", "") : c \in {200} \cup UpstreamErrorCodes}
    \cup {Upstream("transport", 0, "", "")}

\* requests.Response.ok
ok(response) == response.code < 400

----------------------------------------------------------------------------
(* Decisions of the handlers *)

\* Mutant of NotFound: the lookup's result is not tested.
NotFound_Never(found) == FALSE

\* pass_accession_id: `if not archive: abort(404, ...)`
NotFound(found) == found = NoRecord

\* Mutant of validate_status: every string is accepted.
validate_status_Lenient(status) == TRUE

\* validate_status: the status is accepted iff status_converter does not raise.
validate_status(status) == status_converter(status, FALSE) # InvalidStatus

\* Mutant of PatchIdentifier: the assignment is lost.
PatchIdentifier_Keep(ark, archivematica_id) == ark

\* Archive.patch: `if archivematica_id and archivematica_id !=
\* archive.archivematica_id: archive.archivematica_id = archivematica_id`
PatchIdentifier(ark, archivematica_id) ==
    IF archivematica_id # "" /\ archivematica_id # ark.archivematica_id
    THEN [ark EXCEPT !.archivematica_id = archivematica_id]
    ELSE ark

\* Mutant of PatchDispatches: the comparison with the current status is lost.
PatchDispatches_Always(ark_status, ark) == TRUE

\* Archive.patch: `if ark_status and ark_status != archive.status` (every
\* member of the enumeration is truthy).
PatchDispatches(ark_status, ark) == ark_status # ark.status

\* Mutant of CheapPath: the test for NEW is lost.
CheapPath_NoNew(real_status, ark) ==
    \/ ~real_status
    \/ ark.status = "FAILED"
    \/ ark.archivematica_id = ""

\* Archive.get: the cheap path.
CheapPath(real_status, ark) ==
    \/ ~real_status
    \/ ark.status = "FAILED"
    \/ ark.status = "NEW"
    \/ ark.archivematica_id = ""

\* Mutant of PollsTransfer: REGISTERED is polled as a transfer too.
PollsTransfer_AlsoRegistered(ark) ==
    ark.status \in {"WAITING", "PROCESSING_TRANSFER", "REGISTERED"}

\* Archive.get: `if archive.status in (WAITING, PROCESSING_TRANSFER)`
PollsTransfer(ark) == ark.status \in {"WAITING", "PROCESSING_TRANSFER"}

\* Mutant of TransferPollFailed: the answer is never taken as a failure.
TransferPollFailed_Never(response) == FALSE

\* Archive.get: `if not response.ok` after the transfer-status poll
TransferPollFailed(response) == ~ok(response)

\* Mutant of TransferDispatches: the comparison with the cached status is lost.
TransferDispatches_Always(status, ark) == TRUE

\* Archive.get: `if status != archive.status` after the transfer-status poll
TransferDispatches(status, ark) == status # ark.status

\* Mutant of Pivot: the identifier is not replaced.
Pivot_Keep(ark, response) == ark

\* Archive.get: `archive.archivematica_id = response.json()['sip_uuid']`
Pivot(ark, response) == [ark EXCEPT !.archivematica_id = response.sip_uuid]

\* Mutant of IngestPollFailed: only a server-side failure counts.
IngestPollFailed_ServerOnly(response) == response.code >= 500

\* Archive.get: `if not response.ok` after the ingest-status poll
IngestPollFailed(response) == ~ok(response)

\* Mutant of IngestDispatches: the comparison with the cached status is lost.
IngestDispatches_Always(status, ark) == TRUE

\* Archive.get: `if status != archive.status` after the ingest-status poll
IngestDispatches(status, ark) == status # ark.status

\* Mutant of NotRegistered: the test for the identifier is lost.
NotRegistered_StatusOnly(ark) == ark.status # "REGISTERED"

\* ArchiveDownload.get: `if not archive.status == REGISTERED or not
\* archive.archivematica_id`
NotRegistered(ark) == ark.status # "REGISTERED" \/ ark.archivematica_id = ""

\* Mutant of DownloadOutcome: the ConnectionError is not caught.
DownloadOutcome_NoCatch(response) ==
    IF response.kind = "transport"
    THEN ServerError
    ELSE IF ok(response)
    THEN [code |-> 200, body |-> Body("stream", NoRecord)]
    ELSE [code |-> response.code, body |-> Body("empty", NoRecord)]

\* ArchiveDownload.get from the answer of the storage service on: a
\* ConnectionError gives 520, a success the streamed body (bytes and headers of
\* the upstream are relayed as they come) and anything else the upstream's
\* status code with an empty body.
DownloadOutcome(response) ==
    IF response.kind = "transport"
    THEN TextResponse(520)
    ELSE IF ok(response)
    THEN [code |-> 200, body |-> Body("stream", NoRecord)]
    ELSE [code |-> response.code, body |-> Body("empty", NoRecord)]

----------------------------------------------------------------------------
(* State machine *)

Start ==
    /\ db = InitialRecord
    /\ pc = [p \in Clients |-> "idle"]
    /\ call = [p \in Clients |-> NoCall]
    /\ archive = [p \in Clients |-> NoRecord]
    /\ params = [p \in Clients |-> FALSE]
    /\ log = [p \in Clients |-> <<>>]
    /\ resp = [p \in Clients |-> NoResp]
    /\ last = NoRequest
    /\ served = 0

\* A request is admitted to slot p: only when no other request is in progress
\* if the server is serial, and always if requests may overlap; a run with
\* overlapping requests serves at most MaxRequests of them.
Admitted(p) ==
    /\ pc[p] = "idle"
    /\ serial => \A q \in Clients : pc[q] = "idle"
    /\ ~serial => served < MaxRequests
    /\ served' = IF serial THEN served ELSE served + 1

\* The request of slot p returns response r: newdb is the persisted record,
\* ark the request's Archive object, lg the call's log.
Return(p, newdb, ark, lg, r) ==
    /\ db' = newdb
    /\ archive' = [archive EXCEPT ![p] = ark]
    /\ log' = [log EXCEPT ![p] = lg]
    /\ resp' = [resp EXCEPT ![p] = r]
    /\ pc' = [pc EXCEPT ![p] = "done"]
    /\ last' = IF serial THEN RequestOf(call'[p]) ELSE last
    /\ UNCHANGED serial

\* The request of slot p waits at `at` for Archivematica's answer.
Await(p, at, newdb, ark, lg) ==
    /\ db' = newdb
    /\ archive' = [archive EXCEPT ![p] = ark]
    /\ log' = [log EXCEPT ![p] = lg]
    /\ pc' = [pc EXCEPT ![p] = at]
    /\ UNCHANGED <<resp, last, serial>>

\* Mutant of IngestRequest: the URL is built from the identifier the record
\* had when the request came in.
IngestRequest_EntryKey(p, bound, newdb, ark, lg) ==
    IF bound
    THEN Await(p, "ingest", newdb, ark,
               Append(lg, PollEvent("ingest",
                                    call[p].entry.archivematica_id)))
    ELSE Return(p, newdb, ark, lg, ServerError)

\* Archive.get, "we try to get the status of the SIP": requests.get(url,
\* params=params) reads the local `params`, which only the transfer branch
\* binds; reading it unbound raises before any request is sent.
IngestRequest(p, bound, newdb, ark, lg) ==
    IF bound
    THEN Await(p, "ingest", newdb, ark,
               Append(lg, PollEvent("ingest", ark.archivematica_id)))
    ELSE Return(p, newdb, ark, lg, ServerError)

\* PATCH /archive/<accession_id>/
patch(p) ==
    /\ Admitted(p)
    /\ \E accession_id \in AccessionIds, st \in StatusArgs, aid \in IdArgs :
        LET found == get_from_accession_id(accession_id)
            status == ArgOrDefault(st)
            a1 == PatchIdentifier(found, ArgOrDefault(aid))
            ark_status == status_converter(status, FALSE)
            a2 == change_status_func(a1, ark_status, a1.archivematica_id)
        IN  /\ call' = [call EXCEPT ![p] =
                   NewCall(Request("patch", accession_id, st, aid, FALSE))]
            /\ UNCHANGED params
            /\ IF NotFound(found)
               THEN Return(p, db, NoRecord, <<>>, TextResponse(404))
               ELSE IF st # <<>> /\ ~validate_status(st[1])
               THEN Return(p, db, found, <<>>, TextResponse(400))
               ELSE IF ark_status = InvalidStatus
               THEN Return(p, a1, a1, <<>>, ServerError)
               ELSE IF PatchDispatches(ark_status, a1)
               THEN Return(p, a2, a2,
                           <<DispatchEvent(ark_status, a1.archivematica_id,
                                           a1.status, a1.status)>>,
                           _to_json(a2))
               ELSE Return(p, a1, a1, <<>>, _to_json(a1))

\* GET /archive/<accession_id>/ up to its first outbound request
get(p) ==
    /\ Admitted(p)
    /\ \E accession_id \in AccessionIds, real_status \in BOOLEAN :
        LET found == get_from_accession_id(accession_id)
        IN  /\ call' = [call EXCEPT ![p] =
                   NewCall(Request("get", accession_id, <<>>, <<>>,
                                   real_status))]
            /\ IF NotFound(found)
               THEN /\ Return(p, db, NoRecord, <<>>, TextResponse(404))
                    /\ UNCHANGED params
               ELSE IF CheapPath(real_status, found)
               THEN /\ Return(p, db, found, <<>>, _to_json(found))
                    /\ UNCHANGED params
               ELSE IF PollsTransfer(found)
               THEN /\ Await(p, "transfer", db, found,
                             <<PollEvent("transfer", found.archivematica_id)>>)
                    /\ params' = [params EXCEPT ![p] = TRUE]
               ELSE /\ IngestRequest(p, FALSE, db, found, <<>>)
                    /\ UNCHANGED params

\* Archive.get from the answer to the transfer-status poll on
transfer_response(p) ==
    /\ pc[p] = "transfer"
    /\ \E response \in TransferResponses :
        LET ark == archive[p]
            lg == Append(log[p], AnswerEvent("transfer_answer", response))
            status == status_converter(response.status, FALSE)
            moved == change_status_func(db, status, ark.archivematica_id)
            a1 == Pivot(ark, response)
            pivoted == change_status_func(db, "PROCESSING_AIP",
                                          a1.archivematica_id)
        IN  /\ UNCHANGED <<call, params, served>>
            /\ IF response.kind = "transport"
               THEN Return(p, db, ark, lg, ServerError)
               ELSE IF TransferPollFailed(response)
               THEN Return(p, db, ark, lg, EmptyJson(response.code))
               ELSE IF status = InvalidStatus
               THEN Return(p, db, ark, lg, ServerError)
               ELSE IF status # "REGISTERED"
               THEN IF TransferDispatches(status, ark)
                    THEN Return(p, moved, moved,
                                Append(lg,
                                       DispatchEvent(status,
                                                     ark.archivematica_id,
                                                     ark.status, db.status)),
                                _to_json(moved))
                    ELSE Return(p, db, ark, lg, _to_json(ark))
               ELSE IngestRequest(p, params[p], pivoted, pivoted,
                                  Append(lg,
                                         DispatchEvent("PROCESSING_AIP",
                                                       a1.archivematica_id,
                                                       ark.status, db.status)))

\* Archive.get from the answer to the ingest-status poll on
ingest_response(p) ==
    /\ pc[p] = "ingest"
    /\ \E response \in IngestResponses :
        LET ark == archive[p]
            lg == Append(log[p], AnswerEvent("ingest_answer", response))
            status == status_converter(response.status, TRUE)
            moved == change_status_func(db, status, ark.archivematica_id)
        IN  /\ UNCHANGED <<call, params, served>>
            /\ IF response.kind = "transport"
               THEN Return(p, db, ark, lg, ServerError)
               ELSE IF IngestPollFailed(response)
               THEN Return(p, db, ark, lg, EmptyJson(response.code))
               ELSE IF status = InvalidStatus
               THEN Return(p, db, ark, lg, ServerError)
               ELSE IF IngestDispatches(status, ark)
               THEN Return(p, moved, moved,
                           Append(lg,
                                  DispatchEvent(status, ark.archivematica_id,
                                                ark.status, db.status)),
                           _to_json(moved))
               ELSE Return(p, db, ark, lg, _to_json(ark))

\* GET /archive/<accession_id>/download/
download(p) ==
    /\ Admitted(p)
    /\ \E accession_id \in AccessionIds, response \in DownloadResponses :
        LET found == get_from_accession_id(accession_id)
            polled == <<PollEvent("download", found.archivematica_id),
                        AnswerEvent("download_answer", response)>>
        IN  /\ call' = [call EXCEPT ![p] =
                   NewCall(Request("download", accession_id, <<>>, <<>>,
                                   FALSE))]
            /\ UNCHANGED params
            /\ IF NotFound(found)
               THEN Return(p, db, NoRecord, <<>>, TextResponse(404))
               ELSE IF NotRegistered(found)
               THEN Return(p, db, found, <<>>, TextResponse(412))
               ELSE Return(p, db, found, polled, DownloadOutcome(response))

\* The response is delivered and the slot is free again.
Finish(p) ==
    /\ pc[p] = "done"
    /\ pc' = [pc EXCEPT ![p] = "idle"]
    /\ call' = [call EXCEPT ![p] = NoCall]
    /\ archive' = [archive EXCEPT ![p] = NoRecord]
    /\ params' = [params EXCEPT ![p] = FALSE]
    /\ log' = [log EXCEPT ![p] = <<>>]
    /\ resp' = [resp EXCEPT ![p] = NoResp]
    /\ UNCHANGED <<db, last, serial, served>>

Next ==
    \E p \in Clients :
        \/ patch(p)
        \/ get(p)
        \/ download(p)
        \/ transfer_response(p)
        \/ ingest_response(p)
        \/ Finish(p)

\* Requests are served one at a time.
Init == Start /\ serial = TRUE
Spec == Init /\ [][Next]_vars

\* Requests overlap.
InitConc == Start /\ serial = FALSE
SpecConc == InitConc /\ [][Next]_vars

\* Client-driven retry: a transfer has been started for the record (it is
\* WAITING under a transfer identifier) and from then on the record is only
\* queried: live status queries come one at a time, again and again, and
\* Archivematica answers each poll with a failure, with "PROCESSING" or with
\* "COMPLETE" (naming a package in the transfer answer); it never reports a
\* failed transfer or ingest.
StartedTransfer ==
    [InitialRecord EXCEPT !.status = "WAITING", !.archivematica_id = IdPool[1]]

InitRetry ==
    /\ db = StartedTransfer
    /\ pc = [p \in Clients |-> "idle"]
    /\ call = [p \in Clients |-> NoCall]
    /\ archive = [p \in Clients |-> NoRecord]
    /\ params = [p \in Clients |-> FALSE]
    /\ log = [p \in Clients |-> <<>>]
    /\ resp = [p \in Clients |-> NoResp]
    /\ last = NoRequest
    /\ served = 0
    /\ serial = TRUE

LiveQuery(p) ==
    /\ get(p)
    /\ call'[p].real_status
    /\ call'[p].accession_id = KnownAccession

\* Any other status query: of the cached status, or of an unknown accession.
OtherQuery(p) ==
    /\ get(p)
    /\ ~ (call'[p].real_status /\ call'[p].accession_id = KnownAccession)

TransferPending(p) ==
    /\ transfer_response(p)
    /\ \E i \in DOMAIN log'[p] :
           /\ log'[p][i].kind = "transfer_answer"
           /\ \/ log'[p][i].answer = "transport"
              \/ log'[p][i].code >= 400
              \/ log'[p][i].status = "PROCESSING"

TransferCompleted(p) ==
    /\ transfer_response(p)
    /\ \E i \in DOMAIN log'[p] :
           /\ log'[p][i].kind = "transfer_answer"
           /\ log'[p][i].status = "COMPLETE"
           /\ log'[p][i].archivematica_id # ""

IngestPending(p) ==
    /\ ingest_response(p)
    /\ \E i \in DOMAIN log'[p] :
           /\ log'[p][i].kind = "ingest_answer"
           /\ \/ log'[p][i].answer = "transport"
              \/ log'[p][i].code >= 400
              \/ log'[p][i].status = "PROCESSING"

IngestCompleted(p) ==
    /\ ingest_response(p)
    /\ \E i \in DOMAIN log'[p] :
           /\ log'[p][i].kind = "ingest_answer"
           /\ log'[p][i].status = "COMPLETE"

NextRetry ==
    \E p \in Clients :
        \/ LiveQuery(p)
        \/ OtherQuery(p)
        \/ TransferPending(p)
        \/ TransferCompleted(p)
        \/ IngestPending(p)
        \/ IngestCompleted(p)
        \/ Finish(p)

\* Every request runs to its end (the views are synchronous), the client
\* repeats its live status query for ever, and a poll that is made again and
\* again is eventually answered "COMPLETE".
SpecRetry ==
    /\ InitRetry
    /\ [][NextRetry]_vars
    /\ WF_vars(NextRetry)
    /\ SF_vars(\E p \in Clients : LiveQuery(p))
    /\ SF_vars(\E p \in Clients : TransferCompleted(p))
    /\ SF_vars(\E p \in Clients : IngestCompleted(p))

----------------------------------------------------------------------------
(* Properties *)

\* The Dispatcher invocations of a call, in order.
Dispatched(lg) == SelectSeq(lg, LAMBDA e : e.kind = "dispatch")

\* The events of kind k of a call, in order.
EventsOf(lg, k) == SelectSeq(lg, LAMBDA e : e.kind = k)

\* Whether the call made the poll named k ("transfer" or "ingest").
Polled(lg, k) == EventsOf(lg, k) # <<>>

\* Slot p has completed a request of operation op on the known accession.
Completed(p, op) ==
    /\ pc[p] = "done"
    /\ call[p].op = op
    /\ call[p].accession_id = KnownAccession

\* Slot p has completed a live status query on the known accession.
CompletedLive(p) == Completed(p, "get") /\ call[p].real_status

\* The answer to the call's poll k failed with a non-success HTTP response.
HttpFailure(lg, k) ==
    /\ EventsOf(lg, k) # <<>>
    /\ EventsOf(lg, k)[1].answer = "http"
    /\ EventsOf(lg, k)[1].code >= 400

\* The answer to the call's poll k failed (HTTP failure or transport error).
PollFailure(lg, k) ==
    /\ EventsOf(lg, k) # <<>>
    /\ \/ EventsOf(lg, k)[1].answer = "transport"
       \/ EventsOf(lg, k)[1].code >= 400

\* The call's transfer poll reported the transfer complete.
TransferComplete(lg) ==
    /\ EventsOf(lg, "transfer_answer") # <<>>
    /\ EventsOf(lg, "transfer_answer")[1].answer = "http"
    /\ EventsOf(lg, "transfer_answer")[1].code = 200
    /\ EventsOf(lg, "transfer_answer")[1].status = "COMPLETE"

\* The package identifier the call's transfer poll carried.
PackageId(lg) == EventsOf(lg, "transfer_answer")[1].archivematica_id

\* The call's ingest poll succeeded and reported the string s.
IngestReported(lg, s) ==
    /\ EventsOf(lg, "ingest_answer") # <<>>
    /\ EventsOf(lg, "ingest_answer")[1].answer = "http"
    /\ EventsOf(lg, "ingest_answer")[1].code = 200
    /\ EventsOf(lg, "ingest_answer")[1].status = s

\* A live status query on a cached WAITING record whose transfer poll
\* reported the transfer complete.
PivotCall(p) ==
    /\ CompletedLive(p)
    /\ call[p].entry.status = "WAITING"
    /\ call[p].entry.archivematica_id # ""
    /\ TransferComplete(log[p])

\* C1 as stated: after a live status query on a WAITING record whose transfer
\* poll reports complete with package id P, the record has status
\* PROCESSING_AIP and archivematica_id P and the Dispatcher was invoked exactly
\* twice in the call, first for PROCESSING_AIP.
C1_PivotTwiceAndProcessingAip ==
    \A p \in Clients :
        PivotCall(p) =>
            /\ db.status = "PROCESSING_AIP"
            /\ db.archivematica_id = PackageId(log[p])
            /\ Len(Dispatched(log[p])) = 2
            /\ Dispatched(log[p])[1].status = "PROCESSING_AIP"

\* C1 amended: after such a query the record has archivematica_id P and the
\* Dispatcher was invoked first for PROCESSING_AIP with P; it was invoked a
\* second time, for the status S the ingest poll reports, exactly when that
\* poll succeeds with S other than PROCESSING_AIP, and the record's status is
\* then S; otherwise it was invoked once and the status is PROCESSING_AIP.
C1_PivotInOneQuery ==
    \A p \in Clients :
        PivotCall(p) =>
            LET d == Dispatched(log[p])
                reported ==
                    {s \in UpstreamStrings :
                        /\ IngestReported(log[p], s)
                        /\ status_converter(s, TRUE)
                               \notin {InvalidStatus, "PROCESSING_AIP"}}
            IN  /\ db.archivematica_id = PackageId(log[p])
                /\ Len(d) >= 1
                /\ d[1].status = "PROCESSING_AIP"
                /\ d[1].archivematica_id = PackageId(log[p])
                /\ Polled(log[p], "ingest")
                /\ IF reported # {}
                   THEN /\ Len(d) = 2
                        /\ \A s \in reported :
                               /\ d[2].status = status_converter(s, TRUE)
                               /\ db.status = d[2].status
                   ELSE /\ Len(d) = 1
                        /\ db.status = "PROCESSING_AIP"

\* C1 witness: a pivot call that invoked the Dispatcher twice and ended
\* REGISTERED under a package identifier other than the transfer identifier.
C1_Witness ==
    \E p \in Clients :
        /\ PivotCall(p)
        /\ Len(Dispatched(log[p])) = 2
        /\ db.status = "REGISTERED"
        /\ PackageId(log[p]) # call[p].entry.archivematica_id
        /\ PackageId(log[p]) # ""

\* C2 as stated: a live status query whose ingest poll fails leaves status and
\* archivematica_id as they were at the start of the call and does not invoke
\* the Dispatcher, also when it reached the poll through the pivot.
C2_FailedIngestPollLeavesEntryRecord ==
    \A p \in Clients :
        (CompletedLive(p) /\ PollFailure(log[p], "ingest_answer")) =>
            /\ db.status = call[p].entry.status
            /\ db.archivematica_id = call[p].entry.archivematica_id
            /\ Dispatched(log[p]) = <<>>

\* C2 amended: a failed ingest poll changes nothing after it was issued: the
\* answer is the last event of the call, the record holds the identifier the
\* poll was keyed by and the status PROCESSING_AIP the pivot before the poll
\* gave it (the only Dispatcher invocation of the call), and a non-success
\* HTTP response is relayed with an empty JSON object.
C2_FailedIngestPollNoFurtherMutation ==
    \A p \in Clients :
        (CompletedLive(p) /\ PollFailure(log[p], "ingest_answer")) =>
            /\ log[p][Len(log[p])].kind = "ingest_answer"
            /\ db.archivematica_id = EventsOf(log[p], "ingest")[1].archivematica_id
            /\ db.status = "PROCESSING_AIP"
            /\ Len(Dispatched(log[p])) = 1
            /\ Dispatched(log[p])[1].status = "PROCESSING_AIP"
            /\ HttpFailure(log[p], "ingest_answer") =>
                   resp[p] = EmptyJson(EventsOf(log[p], "ingest_answer")[1].code)

\* C2 witness: a pivot call whose ingest poll was answered 404.
C2_Witness ==
    \E p \in Clients :
        /\ CompletedLive(p)
        /\ HttpFailure(log[p], "ingest_answer")
        /\ EventsOf(log[p], "ingest_answer")[1].code = 404
        /\ db.status # call[p].entry.status

\* C3: a live status query on a cached PROCESSING_AIP record with an
\* identifier issues the ingest poll, and when the poll reports PROCESSING_AIP
\* it returns the unchanged record with success and no Dispatcher invocation.
C3_ProcessingAipIsPolled ==
    \A p \in Clients :
        (/\ CompletedLive(p)
         /\ call[p].entry.status = "PROCESSING_AIP"
         /\ call[p].entry.archivematica_id # "") =>
            /\ Polled(log[p], "ingest")
            /\ IngestReported(log[p], "PROCESSING") =>
                   /\ resp[p] = _to_json(call[p].entry)
                   /\ db = call[p].entry
                   /\ Dispatched(log[p]) = <<>>

\* C4: two overlapping status queries never both invoke the Dispatcher from
\* the same observed status, one of them after the persisted status had
\* already moved on.
C4_StatusMutationSerialized ==
    \A p, q \in Clients :
        (p # q /\ call[p].op = "get" /\ call[q].op = "get") =>
            \A i \in DOMAIN log[p], j \in DOMAIN log[q] :
                ~ /\ log[p][i].kind = "dispatch"
                  /\ log[q][j].kind = "dispatch"
                  /\ log[p][i].seen = log[q][j].seen
                  /\ log[q][j].cached # log[q][j].seen

\* C5: a PATCH on an existing accession whose status is omitted or valid
\* returns success with the record's current snapshot, and with the status
\* omitted invokes no Dispatcher.
C5_PatchReturnsSnapshot ==
    \A p \in Clients :
        (/\ Completed(p, "patch")
         /\ \/ call[p].status = <<>>
            \/ status_converter(call[p].status[1], FALSE) # InvalidStatus) =>
            /\ resp[p] = _to_json(db)
            /\ call[p].status = <<>> => Dispatched(log[p]) = <<>>

\* C6: in a status query run without concurrent operations every Dispatcher
\* invocation is for a status different from the record's status at that
\* moment.
C6_NoDispatchOnSameStatus ==
    \A p \in Clients :
        call[p].op = "get" =>
            \A i \in DOMAIN log[p] :
                log[p][i].kind = "dispatch" =>
                    log[p][i].status # log[p][i].cached

\* C6 witness: a status query whose ingest poll reported the cached status
\* PROCESSING_AIP after the pivot, and whose only Dispatcher invocation is
\* the pivot's.
C6_Witness ==
    \E p \in Clients :
        /\ CompletedLive(p)
        /\ IngestReported(log[p], "PROCESSING")
        /\ Len(Dispatched(log[p])) = 1
        /\ resp[p].code = 200

\* C7: a PATCH repeating the PATCH completed just before it invokes no
\* Dispatcher and leaves the record unchanged.
C7_PatchIdempotent ==
    \A p \in Clients :
        (pc[p] = "done" /\ call[p].op = "patch" /\ call[p].prev_patch) =>
            /\ db = call[p].entry
            /\ Dispatched(log[p]) = <<>>

\* C7 witness: a repeated PATCH that supplies a valid status and an
\* identifier and succeeds.
C7_Witness ==
    \E p \in Clients :
        /\ Completed(p, "patch")
        /\ call[p].prev_patch
        /\ call[p].status = <<"PROCESSING">>
        /\ call[p].archivematica_id # <<>>
        /\ resp[p].code = 200

\* C8: a PATCH that supplies an unrecognized status string is rejected with
\* 400, the record is unchanged and the Dispatcher is not invoked.
C8_InvalidStatusRejected ==
    \A p \in Clients :
        (/\ Completed(p, "patch")
         /\ call[p].status # <<>>
         /\ call[p].status[1] \notin ArchiveStatus \cup {"COMPLETE", "PROCESSING"}) =>
            /\ resp[p].code = 400
            /\ db = call[p].entry
            /\ Dispatched(log[p]) = <<>>

\* C8 witness: a rejected PATCH that also supplied a new identifier.
C8_Witness ==
    \E p \in Clients :
        /\ Completed(p, "patch")
        /\ call[p].status = <<"BOGUS">>
        /\ call[p].archivematica_id # <<>>
        /\ call[p].archivematica_id[1] # call[p].entry.archivematica_id
        /\ resp[p].code = 400

\* C9: a live status query on a WAITING or PROCESSING_TRANSFER record whose
\* transfer poll gets a non-success HTTP response returns that status code
\* with an empty JSON object, leaves the record unchanged, invokes no
\* Dispatcher and issues no ingest poll.
C9_FailedTransferPoll ==
    \A p \in Clients :
        (/\ CompletedLive(p)
         /\ call[p].entry.status \in {"WAITING", "PROCESSING_TRANSFER"}
         /\ HttpFailure(log[p], "transfer_answer")) =>
            /\ resp[p] = EmptyJson(EventsOf(log[p], "transfer_answer")[1].code)
            /\ db = call[p].entry
            /\ Dispatched(log[p]) = <<>>
            /\ ~Polled(log[p], "ingest")

\* C9 witness: a status query on a PROCESSING_TRANSFER record relayed a 500.
C9_Witness ==
    \E p \in Clients :
        /\ CompletedLive(p)
        /\ call[p].entry.status = "PROCESSING_TRANSFER"
        /\ HttpFailure(log[p], "transfer_answer")
        /\ resp[p].code = 500

\* The condition of the cheap path, on the record the call entered with.
Cheap(c) ==
    \/ ~c.real_status
    \/ c.entry.status \in {"FAILED", "NEW"}
    \/ c.entry.archivematica_id = ""

\* C10: a status query that is not live, or on a FAILED or NEW record, or on
\* a record without identifier, returns the cached snapshot, makes no
\* outbound call, invokes no Dispatcher and leaves the record unchanged.
C10_CheapPath ==
    \A p \in Clients :
        (/\ call[p].op = "get"
         /\ call[p].accession_id = KnownAccession
         /\ Cheap(call[p])) =>
            /\ pc[p] = "done"
            /\ resp[p] = _to_json(call[p].entry)
            /\ log[p] = <<>>
            /\ db = call[p].entry

\* C10 witness: a live status query on a NEW record that has an identifier.
C10_Witness ==
    \E p \in Clients :
        /\ CompletedLive(p)
        /\ call[p].entry.status = "NEW"
        /\ call[p].entry.archivematica_id # ""

\* C11: a download request on a record that is not REGISTERED or has no
\* identifier is answered 412 without an outbound request; an outbound
\* download request is issued only for a REGISTERED record with an identifier.
C11_DownloadGated ==
    \A p \in Clients :
        Completed(p, "download") =>
            /\ (\/ call[p].entry.status # "REGISTERED"
                \/ call[p].entry.archivematica_id = "") =>
                   (resp[p] = TextResponse(412) /\ log[p] = <<>>)
            /\ Polled(log[p], "download") =>
                   /\ call[p].entry.status = "REGISTERED"
                   /\ call[p].entry.archivematica_id # ""

\* C11 witness: a download request on the record {WAITING, "T1"} got 412.
C11_Witness ==
    \E p \in Clients :
        /\ Completed(p, "download")
        /\ call[p].entry.status = "WAITING"
        /\ call[p].entry.archivematica_id = "T1"
        /\ resp[p].code = 412

\* C12: a download request on a REGISTERED record with an identifier makes
\* exactly one outbound request, keyed by the identifier, and answers by its
\* outcome: 200 with the streamed body on success, 520 on a transport
\* failure, the upstream's code with an empty body otherwise; the record is
\* unchanged and the Dispatcher is not invoked.
C12_DownloadOutcome ==
    \A p \in Clients :
        (/\ Completed(p, "download")
         /\ call[p].entry.status = "REGISTERED"
         /\ call[p].entry.archivematica_id # "") =>
            LET answer == EventsOf(log[p], "download_answer")
            IN  /\ Len(EventsOf(log[p], "download")) = 1
                /\ EventsOf(log[p], "download")[1].archivematica_id
                       = call[p].entry.archivematica_id
                /\ Len(answer) = 1
                /\ Len(log[p]) = 2
                /\ answer[1].answer = "transport" =>
                       resp[p] = TextResponse(520)
                /\ (answer[1].answer = "http" /\ answer[1].code = 200) =>
                       (resp[p].code = 200 /\ resp[p].body.kind = "stream")
                /\ (answer[1].answer = "http" /\ answer[1].code >= 400) =>
                       /\ resp[p].code = answer[1].code
                       /\ resp[p].body.kind = "empty"
                /\ db = call[p].entry
                /\ Dispatched(log[p]) = <<>>

\* C12 witness: a download request that found the storage service
\* unreachable.
C12_Witness ==
    \E p \in Clients :
        /\ Completed(p, "download")
        /\ Polled(log[p], "download")
        /\ EventsOf(log[p], "download_answer")[1].answer = "transport"
        /\ resp[p].code = 520

\* The handler body of the PATCH of slot p ran and the request supplied an
\* identifier different from the record's.
PatchedIdentifier(p) ==
    /\ Completed(p, "patch")
    /\ resp[p].code # 400
    /\ call[p].archivematica_id # <<>>
    /\ call[p].archivematica_id[1] # call[p].entry.archivematica_id

\* C13: a PATCH that supplies a non-empty identifier different from the
\* current one persists it whatever happens to the status (changed, unchanged
\* or not converted at all), and a Dispatcher invocation of the same PATCH is
\* handed the new identifier.
C13_IdentifierBeforeStatus ==
    \A p \in Clients :
        PatchedIdentifier(p) =>
            /\ db.archivematica_id = call[p].archivematica_id[1]
            /\ \A i \in DOMAIN log[p] :
                   log[p][i].kind = "dispatch" =>
                       log[p][i].archivematica_id = call[p].archivematica_id[1]

\* C13 witness: a PATCH replaced a non-empty identifier and changed the
\* status, so the Dispatcher was invoked.
C13_Witness ==
    \E p \in Clients :
        /\ PatchedIdentifier(p)
        /\ call[p].entry.archivematica_id # ""
        /\ Len(Dispatched(log[p])) = 1

\* C14: a status query, write or download naming an unknown accession is
\* answered 404 at once, leaves the record as it is, invokes no Dispatcher and
\* makes no outbound request.
C14_UnknownAccession ==
    \A p \in Clients :
        (call[p].op # "none" /\ call[p].accession_id # KnownAccession) =>
            /\ pc[p] = "done"
            /\ resp[p] = TextResponse(404)
            /\ log[p] = <<>>
            /\ db = call[p].entry

\* C14 witness: a PATCH on an unknown accession that supplied a status and an
\* identifier got 404.
C14_Witness ==
    \E p \in Clients :
        /\ pc[p] = "done"
        /\ call[p].op = "patch"
        /\ call[p].accession_id # KnownAccession
        /\ call[p].status = <<"FAILED">>
        /\ call[p].archivematica_id # <<>>
        /\ resp[p].code = 404

\* C15: once the record's archivematica_id is non-empty, no step makes it
\* empty.
C15_IdentifierNeverCleared ==
    [][db.archivematica_id # "" => db'.archivematica_id # ""]_vars

\* The number of Dispatcher invocations a step adds to the call of slot p.
NewDispatches(p) ==
    IF Len(Dispatched(log'[p])) > Len(Dispatched(log[p]))
    THEN Len(Dispatched(log'[p])) - Len(Dispatched(log[p]))
    ELSE 0

\* C16: with non-overlapping requests, a step changes the record's status
\* exactly when it invokes the Dispatcher, it invokes it at most once, and
\* the status after the step is the one the Dispatcher was invoked for; so
\* the status is always that of the last invocation and there are as many
\* status changes as invocations.
C16_StatusOnlyThroughDispatcher ==
    [][/\ \A p \in Clients :
              NewDispatches(p) > 0 =>
                  /\ NewDispatches(p) = 1
                  /\ db'.status # db.status
                  /\ db'.status =
                         Dispatched(log'[p])[Len(Dispatched(log'[p]))].status
       /\ db'.status # db.status =>
              \E p \in Clients : NewDispatches(p) = 1]_vars

\* C16 witness: a status query took the record from PROCESSING_TRANSFER to
\* FAILED with one Dispatcher invocation.
C16_Witness ==
    \E p \in Clients :
        /\ CompletedLive(p)
        /\ call[p].entry.status = "PROCESSING_TRANSFER"
        /\ Len(Dispatched(log[p])) = 1
        /\ Dispatched(log[p])[1].status = "FAILED"
        /\ db.status = "FAILED"

\* C17: a step of a status query never takes the record from REGISTERED to a
\* status other than REGISTERED or FAILED.
C17_RegisteredTerminal ==
    [][\A p \in Clients :
           (/\ db.status = "REGISTERED"
            /\ call'[p].op = "get"
            /\ pc'[p] # pc[p]
            /\ pc'[p] # "idle") =>
               db'.status \in {"REGISTERED", "FAILED"}]_vars

\* C17 witness: a live status query on a REGISTERED record with an identifier
\* has completed and the record is still REGISTERED.
C17_Witness ==
    \E p \in Clients :
        /\ CompletedLive(p)
        /\ call[p].entry.status = "REGISTERED"
        /\ call[p].entry.archivematica_id # ""
        /\ db.status = "REGISTERED"

\* C18: a status query that overlaps a PATCH never invokes the Dispatcher on
\* the basis of the status it loaded before that PATCH changed it.
C18_NoLostUpdate ==
    \A p, q \in Clients :
        (p # q /\ call[p].op = "get" /\ call[q].op = "patch") =>
            \A i \in DOMAIN log[p], j \in DOMAIN log[q] :
                ~ /\ log[p][i].kind = "dispatch"
                  /\ log[q][j].kind = "dispatch"
                  /\ log[p][i].seen = log[q][j].cached
                  /\ log[p][i].cached = log[q][j].status
                  /\ log[p][i].seen # log[p][i].cached

\* The position of the first event of kind k in the log lg (0 if none).
FirstAt(lg, k) ==
    IF \E i \in DOMAIN lg : lg[i].kind = k
    THEN CHOOSE i \in DOMAIN lg :
             /\ lg[i].kind = k
             /\ \A j \in DOMAIN lg : lg[j].kind = k => i <= j
    ELSE 0

\* C19: a status query makes at most one transfer poll and at most one
\* ingest poll; an ingest poll comes after the transfer poll, only when that
\* poll reported the transfer complete, and is keyed by the package
\* identifier of the transfer answer, which is the record's identifier after
\* the pivot.
C19_PollOrder ==
    \A p \in Clients :
        call[p].op = "get" =>
            /\ Len(EventsOf(log[p], "transfer")) <= 1
            /\ Len(EventsOf(log[p], "ingest")) <= 1
            /\ Polled(log[p], "ingest") =>
                   /\ Polled(log[p], "transfer")
                   /\ FirstAt(log[p], "transfer") < FirstAt(log[p], "ingest")
                   /\ FirstAt(log[p], "transfer_answer")
                          < FirstAt(log[p], "ingest")
                   /\ TransferComplete(log[p])
                   /\ EventsOf(log[p], "ingest")[1].archivematica_id
                          = PackageId(log[p])
                   /\ Dispatched(log[p])[1].archivematica_id
                          = PackageId(log[p])

\* C19 witness: a status query is waiting for the answer to an ingest poll
\* keyed by a package identifier other than the transfer identifier.
C19_Witness ==
    \E p \in Clients :
        /\ pc[p] = "ingest"
        /\ Polled(log[p], "ingest")
        /\ EventsOf(log[p], "ingest")[1].archivematica_id
               # call[p].entry.archivematica_id
        /\ EventsOf(log[p], "ingest")[1].archivematica_id # ""

\* C20: when live status queries are repeated and Archivematica eventually
\* reports the transfer and then the ingest complete, a WAITING record with an
\* identifier eventually becomes REGISTERED.
C20_ProgressByRetry ==
    (db.status = "WAITING" /\ db.archivematica_id # "")
        ~> (db.status = "REGISTERED")

====
